---- MODULE Spec2Model ----
(***************************************************************************)
(* Credit ledger, payment workflow and service consumption workflow of the *)
(* Nano-Bananary backend (src/models/*.ts), run by concurrent requests     *)
(* over the one SQLite connection that openDb() hands to every caller.     *)
(*                                                                         *)
(* One action is one SQL statement together with the JavaScript that runs  *)
(* up to the next await.  Statements of different requests interleave      *)
(* freely.  The connection has a single transaction state: BEGIN inside an *)
(* open transaction, and COMMIT / ROLLBACK outside of one, are rejected by *)
(* SQLite and reject the awaiting promise; every statement issued while a  *)
(* transaction is open belongs to it, whoever issued it.                   *)
(***************************************************************************)
EXTENDS Integers, Sequences, FiniteSets, TLC

\* ---------------------------------------------------------------- bounds
\* number of model-layer calls in one behaviour
MaxOps == 4
\* last value of the clock, in hours
MaxTime == 25
\* number of HTTP requests to the service routes in one behaviour
MaxRequests == 2
\* number of login requests in one behaviour
MaxLogins == 4

\* concurrent requests
Procs == {1, 2}

\* ------------------------------------------------------ program constants
InitialBalance == 15
CreditsRate == 10
RefundWindowHours == 24
\* SERVICE_PRICES of the service routes
GeminiEditPrice == 3
EditImagePrice == 5
VideoPrice == 20
\* the price of 'ai-image-edit' in servicePricing of the service model
ServicePricingImageEdit == 5
\* the price of 'ai-image-edit' in the rules of GET /api/accounts/rules
RulesImageEdit == 5
\* failed logins after which the login route asks for a captcha
CaptchaThreshold == 3
\* App.tsx:268, the credits a generation needs at least
MinCredits == 3

\* the clock advances by the refund window exactly, or by one hour more
TickSteps == {RefundWindowHours, RefundWindowHours + 1}

\* ------------------------------------------------------------ input sets
Usernames == {"alice", "bob"}
DeltaInputsWithDeposit ==
  {<<-5, "withdrawal">>, <<-20, "withdrawal">>, <<5, "reward">>, <<5, "deposit">>}
\* the ledger primitives open to callers: withdrawCredits and rewardCredits
DeltaInputs == {<<-5, "withdrawal">>, <<-20, "withdrawal">>, <<5, "reward">>}
PayAmounts == {1, 2}
ConsumeCredits == {5, 20}
UsageCredits == {5}
\* the status argument of updatePaymentStatus: 'completed' | 'failed' | 'refunded'
StatusInputs == {"completed", "failed", "refunded"}
NoId == 0
\* the service endpoints: the Gemini-backed edit-image, and the simulated
\* edit-image and generate-video
ServiceRoutes ==
  {[name |-> "gemini-edit-image", price |-> GeminiEditPrice],
   [name |-> "edit-image", price |-> EditImagePrice],
   [name |-> "generate-video", price |-> VideoPrice]}
\* the routes that charge for the service 'ai-image-edit'
ImageEditRoutes == {"gemini-edit-image", "edit-image"}
\* parseFloat of the :amount of GET /api/accounts/check-balance/:amount
CheckAmounts == {0, 5, 13}
\* what the routes pass to deductCredits in the relatedOrder position
UsedServiceText == "Used AI service"

\* ------------------------------------------------------- error messages
ErrNested == "cannot start a transaction within a transaction"
ErrNoTxn == "no transaction is active"
ErrUnique == "UNIQUE constraint failed"
ErrInsufficient == "Insufficient balance"
ErrNoAccount == "User account not found"
ErrNoPayment == "Payment not found"
ErrNotPending == "Payment is not pending"
ErrWithdraw == "Failed to withdraw credits"
ErrUsage == "Invalid service usage record"
ErrExpired == "Refund period expired"
ErrNoHeader == "Authorization header is required"
ErrFormat == "Invalid authorization format"
ErrTokenExpired == "Token expired"
ErrToken == "Invalid token"
ErrNoUser == "User not found"
ErrCaptcha == "Too many failed attempts. Please enter captcha."
ErrLogin == "Invalid username or password"

VARIABLES
  db,       \* the tables as the shared connection sees them
  snap,     \* the tables as of the BEGIN of the open transaction
  inTxn,    \* a transaction is open on the shared connection
  now,      \* wall clock, hours
  nextId,   \* next value of generateId()
  nops,     \* calls made so far
  proc,     \* per request: position, arguments, locals, result
  issued,   \* ids handed out to callers
  okSum,    \* per user: sum of the deltas of updateUserBalance calls that returned true
  nreq,     \* HTTP requests received so far
  logins,   \* login requests made, and per username the failed ones since the last success
  ui        \* the browser: React state of App and AuthProvider, and localStorage

vars == <<db, snap, inTxn, now, nextId, nops, proc, issued, okSum, nreq, logins, ui>>

\* ------------------------------------------------------------- database
EmptyDb ==
  [users |-> <<>>, accounts |-> <<>>, txns |-> <<>>, payments |-> <<>>, usages |-> <<>>]

\* the committed tables: what survives a ROLLBACK issued now
Committed == IF inTxn THEN snap ELSE db

HasAccount(d, u) == \E i \in DOMAIN d.accounts : d.accounts[i].userId = u
AccountRow(d, u) == d.accounts[CHOOSE i \in DOMAIN d.accounts : d.accounts[i].userId = u]
HasUser(d, u) == \E i \in DOMAIN d.users : d.users[i].id = u
HasUsername(d, n) == \E i \in DOMAIN d.users : d.users[i].username = n
HasPayment(d, id) == \E i \in DOMAIN d.payments : d.payments[i].id = id
PaymentRow(d, id) == d.payments[CHOOSE i \in DOMAIN d.payments : d.payments[i].id = id]
HasUsage(d, id) == \E i \in DOMAIN d.usages : d.usages[i].id = id
UsageRow(d, id) == d.usages[CHOOSE i \in DOMAIN d.usages : d.usages[i].id = id]

\* getBalance: 0 when the account is missing
BalanceOf(d, u) == IF HasAccount(d, u) THEN AccountRow(d, u).balance ELSE 0

\* UPDATE user_accounts SET balance = ?, lastUpdated = ? WHERE userId = ?
SetBalance(d, u, bal, t) ==
  [d EXCEPT !.accounts = [i \in DOMAIN @ |->
     IF @[i].userId = u THEN [@[i] EXCEPT !.balance = bal, !.lastUpdated = t] ELSE @[i]]]

\* UPDATE user_accounts SET balance = balance + ?, lastUpdated = ? WHERE userId = ?
AddBalance(d, u, c, t) ==
  [d EXCEPT !.accounts = [i \in DOMAIN @ |->
     IF @[i].userId = u THEN [@[i] EXCEPT !.balance = @ + c, !.lastUpdated = t] ELSE @[i]]]

\* UPDATE payments SET status = ?, transactionId = ? WHERE id = ?
SetPayment(d, id, st, txn) ==
  [d EXCEPT !.payments = [i \in DOMAIN @ |->
     IF @[i].id = id THEN [@[i] EXCEPT !.status = st, !.transactionId = txn] ELSE @[i]]]

\* UPDATE service_usages SET status = ? WHERE id = ?
SetUsageStatus(d, id, st) ==
  [d EXCEPT !.usages = [i \in DOMAIN @ |->
     IF @[i].id = id THEN [@[i] EXCEPT !.status = st] ELSE @[i]]]

TxnRow(id, u, type, amount, prev, cur, rel, t) ==
  [id |-> id, userId |-> u, type |-> type, amount |-> amount,
   previousBalance |-> prev, currentBalance |-> cur, relatedOrder |-> rel, createdAt |-> t]

InsertTxnDropped(d, row) == d

\* INSERT INTO credit_transactions
InsertTxn(d, row) == [d EXCEPT !.txns = Append(@, row)]

UsageRowOf(id, u, key, credits, st, t) ==
  [id |-> id, userId |-> u, serviceKey |-> key, creditsUsed |-> credits,
   status |-> st, createdAt |-> t]

InsertUsage(d, row) == [d EXCEPT !.usages = Append(@, row)]

\* --------------------------------------------------------- pure functions
NewBalanceSubtracts(prev, amount) == prev - amount

\* accountModel.ts:52
NewBalance(prev, amount) == prev + amount

InsufficientNever(type, cur) == FALSE

\* accountModel.ts:55
InsufficientBalance(type, cur) == type = "withdrawal" /\ cur < 0

EnoughAlways(balance, required) == TRUE

\* accountModel.ts:140
EnoughBalance(balance, required) == balance >= required

\* paymentModel.ts:24
PaymentCredits(amount, rate) == amount * rate

\* paymentModel.ts:154
CallbackStatus(success) == IF success THEN "completed" ELSE "failed"

RefundNeverExpires(t, createdAt) == FALSE

\* service model: hoursDiff > 24
RefundExpired(t, createdAt) == t - createdAt > RefundWindowHours

\* service model: the previousBalance / currentBalance a refund writes to its row
RefundPrevious(creditsUsed) == creditsUsed - creditsUsed
RefundCurrent(creditsUsed) == creditsUsed

RefundableAnyStatus(status) == TRUE

\* service model: serviceUsage.status !== 'success' turns the refund down
Refundable(status) == status = "success"

BeginAlwaysAccepted(open) == FALSE

\* BEGIN TRANSACTION on the connection every caller shares
BeginRejected(open) == open

\* the tokens a client can present for user ids ids
Tokens(ids) == [signed : BOOLEAN, expired : BOOLEAN, userId : ids]

\* the Authorization header as authHeader.split(' ') sees it; <<>> when absent
HeaderInputs(ids) ==
  {<<>>, <<"Bearer">>}
    \cup {<<"Basic", t>> : t \in Tokens(ids)}
    \cup {<<"Bearer", t>> : t \in Tokens(ids)}

\* the token generateAuthToken signs for user id, before it expires
GoodToken(id) == [signed |-> TRUE, expired |-> FALSE, userId |-> id]

\* the header of a client that is not logged in, or logged in as one of ids
ClientHeaders(ids) == {<<>>} \cup {<<"Bearer", GoodToken(id)>> : id \in ids}

VerifyIgnoresExpiry(tok) == IF ~tok.signed THEN "JsonWebTokenError" ELSE "ok"

\* verifyAuthToken: jwt.verify checks the signature, then the expiry
VerifyAuthToken(tok) ==
  IF ~tok.signed THEN "JsonWebTokenError"
  ELSE IF tok.expired THEN "TokenExpiredError"
  ELSE "ok"

Deny(m) == [status |-> 401, msg |-> m, user |-> NoId]

\* authMiddleware: 401 with a message, or status 0 and the user when it calls next()
AuthMiddleware(h, d) ==
  IF h = <<>> THEN Deny(ErrNoHeader)
  ELSE IF h[1] # "Bearer" \/ Len(h) < 2 THEN Deny(ErrFormat)
  ELSE LET v == VerifyAuthToken(h[2]) IN
       IF v = "TokenExpiredError" THEN Deny(ErrTokenExpired)
       ELSE IF v = "JsonWebTokenError" THEN Deny(ErrToken)
       ELSE IF ~HasUser(d, h[2].userId) THEN Deny(ErrNoUser)
       ELSE [status |-> 0, msg |-> "", user |-> h[2].userId]

HasSufficientAlways(balance, required) == TRUE

\* checkUserBalance of the service routes
HasSufficientBalance(balance, required) == balance >= required

DeductResponseChecked(r) == IF r = "true" THEN 200 ELSE 500

\* the response of a service route once deductCredits has settled: its
\* result is not looked at, a rejection goes to the catch block
DeductResponse(r) == IF r = "threw" THEN 500 ELSE 200

RECURSIVE SumAmounts(_, _)
SumAmounts(txns, u) ==
  IF txns = <<>> THEN 0
  ELSE (IF Head(txns).userId = u THEN Head(txns).amount ELSE 0) + SumAmounts(Tail(txns), u)

\* one segment of a URL path: a literal word, or the text of an id
Lit(word) == [text |-> word, id |-> NoId]
IdSeg(id) == [text |-> "id", id |-> id]
\* one segment of a route pattern: a literal word, or a :parameter
Word(word) == [param |-> FALSE, text |-> word]
Param == [param |-> TRUE, text |-> ""]

\* the routes of the payment router, in the order they are registered
PaymentRouter ==
  << [method |-> "POST", pattern |-> <<Word("create")>>, auth |-> TRUE, handler |-> "create"],
     [method |-> "GET", pattern |-> <<Param>>, auth |-> TRUE, handler |-> "detail"],
     [method |-> "GET", pattern |-> <<Word("user")>>, auth |-> TRUE, handler |-> "list"],
     [method |-> "POST", pattern |-> <<Word("callback")>>, auth |-> FALSE, handler |-> "callback"],
     [method |-> "GET", pattern |-> <<Word("gateway-config")>>, auth |-> FALSE,
      handler |-> "gateway-config"],
     [method |-> "POST", pattern |-> <<Param, Word("simulate-success")>>, auth |-> FALSE,
      handler |-> "simulate-success"],
     [method |-> "POST", pattern |-> <<Param, Word("simulate-failure")>>, auth |-> FALSE,
      handler |-> "simulate-failure"] >>

CallbackHandlers == {"callback", "simulate-success", "simulate-failure"}

\* the values the list route accepts in its status query
PaymentStatusNames == {"pending", "completed", "failed", "refunded"}

\* express: a layer matches when the method is the same and every segment
\* of the path matches the pattern, a :parameter matching any segment
Matches(route, method, path) ==
  /\ route.method = method
  /\ Len(route.pattern) = Len(path)
  /\ \A i \in DOMAIN path : route.pattern[i].param \/ route.pattern[i].text = path[i].text

\* express: the first matching layer handles the request; 0 when none matches
Dispatch(router, method, path) ==
  LET hits == {i \in DOMAIN router : Matches(router[i], method, path)}
  IN IF hits = {} THEN 0 ELSE CHOOSE i \in hits : \A j \in hits : i <= j

NoRequest ==
  [method |-> "none", path |-> <<>>, paymentId |-> NoId, success |-> FALSE,
   amount |-> 0, status |-> "none"]

\* the requests clients send to /api/payments, for payment ids ids
PaymentRequests(ids) ==
  {[NoRequest EXCEPT !.method = "POST", !.path = <<Lit("create")>>, !.amount = a] :
     a \in PayAmounts}
    \cup {[NoRequest EXCEPT !.method = "GET", !.path = <<IdSeg(i)>>] : i \in ids}
    \cup {[NoRequest EXCEPT !.method = "GET", !.path = <<Lit("user")>>, !.status = st] :
            st \in {"none", "pending"}}
    \cup {[NoRequest EXCEPT !.method = "GET", !.path = <<Lit("gateway-config")>>]}
    \cup {[NoRequest EXCEPT !.method = "POST", !.path = <<Lit("callback")>>,
                            !.paymentId = i, !.success = b] : i \in ids, b \in BOOLEAN}
    \cup {[NoRequest EXCEPT !.method = "POST", !.path = <<IdSeg(i), Lit(w)>>] :
            i \in ids, w \in {"simulate-success", "simulate-failure"}}

\* userModel: the login-attempt bookkeeping keeps nothing
GetLoginAttempts(username) == 0

\* localStorage.getItem of a key that is not set
NoItem == [signed |-> FALSE, expired |-> FALSE, userId |-> NoId]

\* the status POST /api/users/login answers with
LoginStatus(attempts, captcha, known, passwordOk) ==
  IF attempts >= CaptchaThreshold /\ ~captcha THEN 400
  ELSE IF ~known \/ ~passwordOk THEN 401
  ELSE 200

\* the id of the user getUserByUsername finds, NoId when there is none
UserIdOf(d, n) ==
  IF HasUsername(d, n)
  THEN d.users[CHOOSE i \in DOMAIN d.users : d.users[i].username = n].id
  ELSE NoId

\* the fields of the 200 answer of POST /api/users/login
LoginBody == {"message", "userId", "username", "email", "token"}

\* const { user: userData } = await response.json()
UserOf(body) == IF "user" \in body THEN "object" ELSE "undefined"

\* isAuthenticated: !!user
IsAuthenticated(u) == u.user = "object"

GenerationTypes == {"image", "video"}

\* getBalance of the auth context: GET /api/accounts with the item 'jwt'
GetBalance(u, d) ==
  IF u.jwt = NoItem \/ ~IsAuthenticated(u) THEN 0
  ELSE LET a == AuthMiddleware(<<"Bearer", u.jwt>>, d) IN
       IF a.status = 0 THEN BalanceOf(d, a.user) ELSE 0

\* no login request has been made
NoLogins == [made |-> 0, failed |-> [n \in Usernames |-> 0]]

\* the page as loaded by a visitor who is not logged in; checking tells that
\* checkAuth awaits GET /api/users/me, flight lists the generation handlers
\* that await getBalance, sent lists the generation requests sent so far
FreshUi ==
  [user |-> "null", jwt |-> NoItem, token |-> NoItem,
   isLoginModalOpen |-> FALSE, hasPendingGenerationRequest |-> FALSE,
   pendingGenerationType |-> "null", loggedIn |-> FALSE, checking |-> FALSE,
   flight |-> <<>>, sent |-> <<>>]

\* ------------------------------------------------------------- requests
Idle ==
  [pc |-> "idle", op |-> "none", ret |-> "top", res |-> "none", msg |-> "",
   user |-> NoId, amount |-> 0, type |-> "none", rel |-> NoId,
   prev |-> 0, cur |-> 0, at |-> 0,
   payId |-> NoId, status |-> "none", credits |-> 0, usageId |-> NoId,
   began |-> FALSE, made |-> NoId, after |-> 0,
   hdr |-> <<>>, http |-> 0, requiredCredits |-> 0, acted |-> FALSE,
   req |-> NoRequest, body |-> {},
   username |-> "", captcha |-> FALSE, requireCaptcha |-> FALSE,
   hasEnoughBalance |-> FALSE, currentBalance |-> 0, requiredAmount |-> 0]

\* the response of the callback and simulate routes to the result of handlePaymentCallback
CallbackResponse(r) == IF r = "true" THEN 200 ELSE IF r = "false" THEN 400 ELSE 500

Finish(f, r, m) ==
  [f EXCEPT !.pc = "idle", !.res = r, !.msg = m, !.ret = "top", !.rel = NoId, !.at = 0,
            !.http = IF f.op \in CallbackHandlers THEN CallbackResponse(r) ELSE @]

\* where control goes when updateUserBalance returns r (or rejects with m)
UBReturn(f, r, m) ==
  CASE f.ret = "top" -> Finish(f, r, m)
    [] f.ret = "pay" ->
         IF r = "threw" THEN [f EXCEPT !.pc = "pay_rollback", !.msg = m]
         ELSE [f EXCEPT !.pc = "pay_commit"]
    [] f.ret = "route" -> Finish([f EXCEPT !.http = DeductResponse(r)], r, m)
    [] f.ret = "consume" ->
         IF r = "threw" THEN [f EXCEPT !.pc = "cons_rollback", !.msg = m]
         ELSE IF r = "false" THEN [f EXCEPT !.pc = "cons_rollback", !.msg = ErrWithdraw]
         ELSE [f EXCEPT !.pc = "cons_usage", !.status = "success"]

CanCall(p) == proc[p].pc = "idle" /\ nops < MaxOps

Init ==
  /\ db = EmptyDb
  /\ snap = EmptyDb
  /\ inTxn = FALSE
  /\ now = 0
  /\ nextId = 1
  /\ nops = 0
  /\ proc = [p \in Procs |-> Idle]
  /\ issued = [users |-> {}, payments |-> {}, usages |-> {}]
  /\ okSum = [u \in 1..(2 * MaxOps) |-> 0]
  /\ nreq = 0
  /\ logins = NoLogins
  /\ ui = FreshUi

\* time passes
Tick ==
  \E h \in TickSteps :
    /\ now + h <= MaxTime
    /\ now' = now + h
  /\ UNCHANGED <<db, snap, inTxn, nextId, nops, proc, issued, okSum, nreq, logins, ui>>


\* BEGIN TRANSACTION issued by updateUserBalance, before its try block
UBBegin(p, f) ==
  IF BeginRejected(inTxn)
  THEN /\ proc' = [proc EXCEPT ![p] = UBReturn(f, "threw", ErrNested)]
       /\ UNCHANGED <<inTxn, snap>>
  ELSE /\ proc' = [proc EXCEPT ![p] = [f EXCEPT !.pc = "ub_select", !.began = TRUE]]
       /\ inTxn' = TRUE
       /\ snap' = db

\* BEGIN TRANSACTION issued by the other transactional operations, before their try block
OpBegin(p, f, first) ==
  IF BeginRejected(inTxn)
  THEN /\ proc' = [proc EXCEPT ![p] = Finish(f, "threw", ErrNested)]
       /\ UNCHANGED <<inTxn, snap>>
  ELSE /\ proc' = [proc EXCEPT ![p] = [f EXCEPT !.pc = first, !.began = TRUE]]
       /\ inTxn' = TRUE
       /\ snap' = db

\* ------------------------------------------------------------ createUser
CreateUser(p) ==
  \E name \in Usernames :
    /\ CanCall(p)
    /\ nops' = nops + 1
    /\ nextId' = nextId + 1
    /\ IF HasUsername(db, name)
       THEN /\ proc' = [proc EXCEPT ![p] = Finish([Idle EXCEPT !.op = "createUser"], "threw", ErrUnique)]
            /\ db' = db
       ELSE /\ db' = [db EXCEPT !.users = Append(@, [id |-> nextId, username |-> name])]
            /\ proc' = [proc EXCEPT ![p] =
                 [Idle EXCEPT !.op = "createUser", !.pc = "cu_account", !.user = nextId, !.at = now]]
    /\ UNCHANGED <<snap, inTxn, now, issued, okSum, nreq, logins, ui>>

CreateUser_Account(p) ==
  /\ proc[p].pc = "cu_account"
  /\ db' = [db EXCEPT !.accounts = Append(@,
        [userId |-> proc[p].user, balance |-> InitialBalance, lastUpdated |-> proc[p].at])]
  /\ proc' = [proc EXCEPT ![p] = Finish(@, "true", "")]
  /\ issued' = [issued EXCEPT !.users = @ \cup {proc[p].user}]
  /\ UNCHANGED <<snap, inTxn, now, nextId, nops, okSum, nreq, logins, ui>>

\* ----------------------------------------------------- updateUserBalance
CallUpdateUserBalance(p) ==
  \E u \in issued.users, d \in DeltaInputs :
    /\ CanCall(p)
    /\ nops' = nops + 1
    /\ UBBegin(p, [Idle EXCEPT !.op = "updateUserBalance", !.ret = "top",
                     !.user = u, !.amount = d[1], !.type = d[2]])
    /\ UNCHANGED <<db, now, nextId, issued, okSum, nreq, logins, ui>>

UB_Select(p) ==
  LET f == proc[p] IN
  /\ f.pc = "ub_select"
  /\ IF ~HasAccount(db, f.user)
     THEN proc' = [proc EXCEPT ![p] = [f EXCEPT !.pc = "ub_rollback", !.msg = ErrNoAccount]]
     ELSE LET prev == AccountRow(db, f.user).balance
              cur == NewBalance(prev, f.amount)
          IN IF InsufficientBalance(f.type, cur)
             THEN proc' = [proc EXCEPT ![p] =
                    [f EXCEPT !.pc = "ub_rollback", !.msg = ErrInsufficient, !.prev = prev, !.cur = cur]]
             ELSE proc' = [proc EXCEPT ![p] =
                    [f EXCEPT !.pc = "ub_update", !.prev = prev, !.cur = cur, !.at = now]]
  /\ UNCHANGED <<db, snap, inTxn, now, nextId, nops, issued, okSum, nreq, logins, ui>>

UB_Update(p) ==
  LET f == proc[p] IN
  /\ f.pc = "ub_update"
  /\ db' = SetBalance(db, f.user, f.cur, f.at)
  /\ proc' = [proc EXCEPT ![p].pc = "ub_insert"]
  /\ UNCHANGED <<snap, inTxn, now, nextId, nops, issued, okSum, nreq, logins, ui>>

UB_Insert(p) ==
  LET f == proc[p] IN
  /\ f.pc = "ub_insert"
  /\ db' = InsertTxn(db, TxnRow(nextId, f.user, f.type, f.amount, f.prev, f.cur, f.rel, f.at))
  /\ nextId' = nextId + 1
  /\ proc' = [proc EXCEPT ![p].pc = "ub_commit"]
  /\ UNCHANGED <<snap, inTxn, now, nops, issued, okSum, nreq, logins, ui>>

\* ------------------------------------------------------ COMMIT / ROLLBACK
CommitPcs == {"ub_commit", "pay_commit", "cons_commit", "ref_commit"}
RollbackPcs == {"ub_rollback", "pay_rollback", "cons_rollback", "ref_rollback"}

CatchOf(pc) ==
  CASE pc = "ub_commit" -> "ub_rollback"
    [] pc = "pay_commit" -> "pay_rollback"
    [] pc = "cons_commit" -> "cons_rollback"
    [] pc = "ref_commit" -> "ref_rollback"

\* what ROLLBACK leaves in the tables
RolledBack(working, saved) == saved

\* the COMMIT that ends the try block of each transactional operation
Commit(p) ==
  LET f == proc[p] IN
  /\ f.pc \in CommitPcs
  /\ IF inTxn
     THEN /\ inTxn' = FALSE
          /\ snap' = EmptyDb
          /\ proc' = [proc EXCEPT ![p] =
               IF f.pc = "ub_commit"
               THEN UBReturn([f EXCEPT !.after = BalanceOf(db, f.user)], "true", "")
               ELSE Finish(f, "true", "")]
          /\ okSum' = IF f.pc = "ub_commit"
                      THEN [okSum EXCEPT ![f.user] = @ + f.amount] ELSE okSum
          /\ issued' = IF f.pc = "cons_commit"
                       THEN [issued EXCEPT !.usages = @ \cup {f.made}] ELSE issued
     ELSE /\ proc' = [proc EXCEPT ![p] = [f EXCEPT !.pc = CatchOf(f.pc), !.msg = ErrNoTxn]]
          /\ UNCHANGED <<inTxn, snap, okSum, issued>>
  /\ UNCHANGED <<db, now, nextId, nops, nreq, logins, ui>>

\* the ROLLBACK in the catch block of each transactional operation
Rollback(p) ==
  LET f == proc[p] IN
  /\ f.pc \in RollbackPcs
  /\ IF inTxn
     THEN /\ inTxn' = FALSE
          /\ db' = RolledBack(db, snap)
          /\ snap' = EmptyDb
          /\ proc' = [proc EXCEPT ![p] =
               CASE f.pc = "ub_rollback" -> UBReturn(f, "false", f.msg)
                 [] f.pc = "cons_rollback" -> [f EXCEPT !.pc = "cons_failed", !.status = "failed"]
                 [] OTHER -> Finish(f, "false", f.msg)]
     ELSE /\ proc' = [proc EXCEPT ![p] =
               IF f.pc = "ub_rollback" THEN UBReturn(f, "threw", ErrNoTxn)
               ELSE Finish(f, "threw", ErrNoTxn)]
          /\ UNCHANGED <<inTxn, db, snap>>
  /\ UNCHANGED <<now, nextId, nops, issued, okSum, nreq, logins, ui>>

\* --------------------------------------------------------- createPayment
CreatePayment(p) ==
  \E u \in issued.users, a \in PayAmounts :
    /\ CanCall(p)
    /\ nops' = nops + 1
    /\ nextId' = nextId + 1
    /\ db' = [db EXCEPT !.payments = Append(@,
          [id |-> nextId, userId |-> u, amount |-> a, credits |-> PaymentCredits(a, CreditsRate),
           status |-> "pending", method |-> "wechat", transactionId |-> "none"])]
    /\ proc' = [proc EXCEPT ![p] =
          Finish([Idle EXCEPT !.op = "createPayment", !.user = u, !.amount = a,
                    !.credits = PaymentCredits(a, CreditsRate), !.made = nextId], "true", "")]
    /\ issued' = [issued EXCEPT !.payments = @ \cup {nextId}]
    /\ UNCHANGED <<snap, inTxn, now, okSum, nreq, logins, ui>>

\* --------------------------- handlePaymentCallback / updatePaymentStatus
CallHandlePaymentCallback(p) ==
  \E id \in issued.payments \cup {NoId}, success \in BOOLEAN :
    /\ CanCall(p)
    /\ nops' = nops + 1
    /\ OpBegin(p, [Idle EXCEPT !.op = "updatePaymentStatus", !.payId = id,
                     !.status = CallbackStatus(success)], "pay_get")
    /\ UNCHANGED <<db, now, nextId, issued, okSum, nreq, logins, ui>>

\* updatePaymentStatus called with a status of its parameter type
CallUpdatePaymentStatus(p) ==
  \E id \in issued.payments, st \in StatusInputs :
    /\ CanCall(p)
    /\ nops' = nops + 1
    /\ OpBegin(p, [Idle EXCEPT !.op = "updatePaymentStatus", !.payId = id, !.status = st], "pay_get")
    /\ UNCHANGED <<db, now, nextId, issued, okSum, nreq, logins, ui>>

Pay_Get(p) ==
  LET f == proc[p] IN
  /\ f.pc = "pay_get"
  /\ proc' = [proc EXCEPT ![p] =
       IF ~HasPayment(db, f.payId)
       THEN [f EXCEPT !.pc = "pay_rollback", !.msg = ErrNoPayment]
       ELSE IF PaymentRow(db, f.payId).status # "pending"
       THEN [f EXCEPT !.pc = "pay_rollback", !.msg = ErrNotPending]
       ELSE [f EXCEPT !.pc = "pay_update", !.user = PaymentRow(db, f.payId).userId,
                      !.credits = PaymentRow(db, f.payId).credits, !.at = now]]
  /\ UNCHANGED <<db, snap, inTxn, now, nextId, nops, issued, okSum, nreq, logins, ui>>

AfterStatusUpdateSkipsDeposit(status) == "pay_commit"

\* paymentModel.ts:128
AfterStatusUpdate(status) == IF status = "completed" THEN "pay_deposit" ELSE "pay_commit"

Pay_Update(p) ==
  LET f == proc[p] IN
  /\ f.pc = "pay_update"
  /\ db' = SetPayment(db, f.payId, f.status, "txn")
  /\ proc' = [proc EXCEPT ![p].pc = AfterStatusUpdate(f.status)]
  /\ UNCHANGED <<snap, inTxn, now, nextId, nops, issued, okSum, nreq, logins, ui>>

\* depositCredits(payment.userId, payment.credits, paymentId): its BEGIN
Pay_Deposit(p) ==
  LET f == proc[p] IN
  /\ f.pc = "pay_deposit"
  /\ UBBegin(p, [f EXCEPT !.ret = "pay", !.amount = f.credits, !.type = "deposit", !.rel = f.payId])
  /\ UNCHANGED <<db, now, nextId, nops, issued, okSum, nreq, logins, ui>>

\* ------------------------------------------------------ createServiceUsage
CreateServiceUsage(p) ==
  \E u \in issued.users, c \in UsageCredits, st \in {"success", "failed"} :
    /\ CanCall(p)
    /\ nops' = nops + 1
    /\ nextId' = nextId + 1
    /\ db' = InsertUsage(db, UsageRowOf(nextId, u, "ai-image-edit", c, st, now))
    /\ proc' = [proc EXCEPT ![p] =
          Finish([Idle EXCEPT !.op = "createServiceUsage", !.user = u, !.credits = c,
                    !.status = st, !.made = nextId], "true", "")]
    /\ issued' = [issued EXCEPT !.usages = @ \cup {nextId}]
    /\ UNCHANGED <<snap, inTxn, now, okSum, nreq, logins, ui>>

\* ---------------------------------------------------------- consumeService
CallConsumeService(p) ==
  \E u \in issued.users, c \in ConsumeCredits :
    /\ CanCall(p)
    /\ nops' = nops + 1
    /\ OpBegin(p, [Idle EXCEPT !.op = "consumeService", !.user = u, !.credits = c], "cons_check")
    /\ UNCHANGED <<db, now, nextId, issued, okSum, nreq, logins, ui>>

Cons_Check(p) ==
  LET f == proc[p]
      enough == HasAccount(db, f.user) /\ EnoughBalance(AccountRow(db, f.user).balance, f.credits)
  IN
  /\ f.pc = "cons_check"
  /\ proc' = [proc EXCEPT ![p] =
       IF enough THEN [f EXCEPT !.pc = "cons_withdraw"]
       ELSE [f EXCEPT !.pc = "cons_rollback", !.msg = ErrInsufficient]]
  /\ UNCHANGED <<db, snap, inTxn, now, nextId, nops, issued, okSum, nreq, logins, ui>>

\* withdrawCredits(userId, credits): its BEGIN
Cons_Withdraw(p) ==
  LET f == proc[p] IN
  /\ f.pc = "cons_withdraw"
  /\ UBBegin(p, [f EXCEPT !.ret = "consume", !.amount = 0 - f.credits,
                   !.type = "withdrawal", !.rel = NoId])
  /\ UNCHANGED <<db, now, nextId, nops, issued, okSum, nreq, logins, ui>>

\* the createServiceUsage call of consumeService, in the try block or in the catch block
Cons_Usage(p) ==
  LET f == proc[p] IN
  /\ f.pc \in {"cons_usage", "cons_failed"}
  /\ db' = InsertUsage(db, UsageRowOf(nextId, f.user, "ai-image-edit", f.credits, f.status, now))
  /\ nextId' = nextId + 1
  /\ proc' = [proc EXCEPT ![p] =
       IF f.pc = "cons_usage" THEN [f EXCEPT !.pc = "cons_commit", !.made = nextId]
       ELSE Finish([f EXCEPT !.made = nextId], "false", f.msg)]
  /\ UNCHANGED <<snap, inTxn, now, nops, issued, okSum, nreq, logins, ui>>

\* ------------------------------------------------ refundServiceConsumption
CallRefund(p) ==
  \E id \in issued.usages \cup {NoId} :
    /\ CanCall(p)
    /\ nops' = nops + 1
    /\ OpBegin(p, [Idle EXCEPT !.op = "refundServiceConsumption", !.usageId = id], "ref_get")
    /\ UNCHANGED <<db, now, nextId, issued, okSum, nreq, logins, ui>>

Ref_Get(p) ==
  LET f == proc[p] IN
  /\ f.pc = "ref_get"
  /\ proc' = [proc EXCEPT ![p] =
       IF ~HasUsage(db, f.usageId) \/ ~Refundable(UsageRow(db, f.usageId).status)
       THEN [f EXCEPT !.pc = "ref_rollback", !.msg = ErrUsage]
       ELSE IF RefundExpired(now, UsageRow(db, f.usageId).createdAt)
       THEN [f EXCEPT !.pc = "ref_rollback", !.msg = ErrExpired, !.at = now]
       ELSE [f EXCEPT !.pc = "ref_account", !.at = now,
                      !.user = UsageRow(db, f.usageId).userId,
                      !.credits = UsageRow(db, f.usageId).creditsUsed]]
  /\ UNCHANGED <<db, snap, inTxn, now, nextId, nops, issued, okSum, nreq, logins, ui>>

Ref_Account(p) ==
  LET f == proc[p] IN
  /\ f.pc = "ref_account"
  /\ db' = AddBalance(db, f.user, f.credits, f.at)
  /\ proc' = [proc EXCEPT ![p].pc = "ref_usage"]
  /\ UNCHANGED <<snap, inTxn, now, nextId, nops, issued, okSum, nreq, logins, ui>>

Ref_Usage(p) ==
  LET f == proc[p] IN
  /\ f.pc = "ref_usage"
  /\ db' = SetUsageStatus(db, f.usageId, "refunded")
  /\ proc' = [proc EXCEPT ![p].pc = "ref_txn"]
  /\ UNCHANGED <<snap, inTxn, now, nextId, nops, issued, okSum, nreq, logins, ui>>

Ref_Txn(p) ==
  LET f == proc[p] IN
  /\ f.pc = "ref_txn"
  /\ db' = InsertTxn(db, TxnRow(nextId, f.user, "reward", f.credits,
                                RefundPrevious(f.credits), RefundCurrent(f.credits),
                                f.usageId, f.at))
  /\ nextId' = nextId + 1
  /\ proc' = [proc EXCEPT ![p].pc = "ref_commit"]
  /\ UNCHANGED <<snap, inTxn, now, nops, issued, okSum, nreq, logins, ui>>

\* ---------------------------------------------------------- service routes
\* a request arrives: authMiddleware up to and including its getUserById
ServiceRequest(p) ==
  \E r \in ServiceRoutes, h \in HeaderInputs(issued.users \cup {NoId}) :
    /\ proc[p].pc = "idle" /\ nreq < MaxRequests
    /\ nreq' = nreq + 1
    /\ LET a == AuthMiddleware(h, db)
           f == [Idle EXCEPT !.op = r.name, !.hdr = h, !.credits = r.price, !.user = a.user]
       IN proc' = [proc EXCEPT ![p] =
            IF a.status = 401 THEN Finish([f EXCEPT !.http = 401], "none", a.msg)
            ELSE [f EXCEPT !.pc = "svc_check"]]
    /\ UNCHANGED <<db, snap, inTxn, now, nextId, nops, issued, okSum, logins, ui>>

\* checkUserBalance and the 402 response
Svc_Check(p) ==
  LET f == proc[p]
      enough == IF f.op = "gemini-edit-image"
                THEN HasAccount(db, f.user) /\ EnoughBalance(AccountRow(db, f.user).balance, f.credits)
                ELSE HasSufficientBalance(BalanceOf(db, f.user), f.credits)
  IN
  /\ f.pc = "svc_check"
  /\ proc' = [proc EXCEPT ![p] =
       IF enough THEN [f EXCEPT !.pc = "svc_action"]
       ELSE Finish([f EXCEPT !.http = 402, !.requiredCredits = f.credits], "none", "")]
  /\ UNCHANGED <<db, snap, inTxn, now, nextId, nops, issued, okSum, nreq, logins, ui>>

\* the paid action: the Gemini call, which can fail, or the simulated delay
Svc_Action(p) ==
  LET f == proc[p] IN
  /\ f.pc = "svc_action"
  /\ \E ok \in (IF f.op = "gemini-edit-image" THEN BOOLEAN ELSE {TRUE}) :
       proc' = [proc EXCEPT ![p] =
         IF ok THEN [f EXCEPT !.pc = "svc_deduct", !.acted = TRUE]
         ELSE Finish([f EXCEPT !.http = 500], "none", "")]
  /\ UNCHANGED <<db, snap, inTxn, now, nextId, nops, issued, okSum, nreq, logins, ui>>

\* deductCredits(userId, requiredCredits, text): the BEGIN of its updateUserBalance
Svc_Deduct(p) ==
  LET f == proc[p] IN
  /\ f.pc = "svc_deduct"
  /\ UBBegin(p, [f EXCEPT !.ret = "route", !.amount = 0 - f.credits,
                   !.type = "withdrawal", !.rel = UsedServiceText])
  /\ UNCHANGED <<db, now, nextId, nops, issued, okSum, nreq, logins, ui>>

\* ------------------------------------------------ check-balance route
\* GET /api/accounts/check-balance/:amount arrives: authMiddleware, then the
\* test of the amount
CheckBalanceRequest(p) ==
  \E amt \in CheckAmounts, h \in ClientHeaders(issued.users) :
    /\ proc[p].pc = "idle" /\ nreq < MaxRequests
    /\ nreq' = nreq + 1
    /\ LET a == AuthMiddleware(h, db)
           f == [Idle EXCEPT !.op = "check-balance", !.hdr = h, !.user = a.user,
                             !.requiredAmount = amt]
       IN proc' = [proc EXCEPT ![p] =
            IF a.status = 401 THEN Finish([f EXCEPT !.http = 401], "none", a.msg)
            ELSE IF amt <= 0 THEN Finish([f EXCEPT !.http = 400], "none", "")
            ELSE [f EXCEPT !.pc = "cb_check"]]
    /\ UNCHANGED <<db, snap, inTxn, now, nextId, nops, issued, okSum, logins, ui>>

\* hasEnoughBalance = await checkBalance(userId, requiredAmount)
CB_Check(p) ==
  LET f == proc[p] IN
  /\ f.pc = "cb_check"
  /\ proc' = [proc EXCEPT ![p] =
       [f EXCEPT !.pc = "cb_account",
                 !.hasEnoughBalance =
                    HasAccount(db, f.user)
                    /\ EnoughBalance(AccountRow(db, f.user).balance, f.requiredAmount)]]
  /\ UNCHANGED <<db, snap, inTxn, now, nextId, nops, issued, okSum, nreq, logins, ui>>

\* account = await getUserAccount(userId), and the 200 response
CB_Account(p) ==
  LET f == proc[p] IN
  /\ f.pc = "cb_account"
  /\ proc' = [proc EXCEPT ![p] =
       Finish([f EXCEPT !.http = 200, !.currentBalance = BalanceOf(db, f.user)], "none", "")]
  /\ UNCHANGED <<db, snap, inTxn, now, nextId, nops, issued, okSum, nreq, logins, ui>>

\* ---------------------------------------------------------- payment routes
\* the paymentId and the success flag a callback or simulate request hands to
\* handlePaymentCallback
CallbackPayment(handler, q) == IF handler = "callback" THEN q.paymentId ELSE q.path[1].id
CallbackSuccess(handler, q) ==
  IF handler = "callback" THEN q.success ELSE handler = "simulate-success"

\* a request to /api/payments arrives: dispatch, then authMiddleware on the
\* guarded routes, or the handler up to its first statement on the others
PaymentRequest(p) ==
  \E q \in PaymentRequests(issued.payments \cup {NoId}), h \in ClientHeaders(issued.users) :
    LET k == Dispatch(PaymentRouter, q.method, q.path)
        route == PaymentRouter[k]
        a == AuthMiddleware(h, db)
        f == [Idle EXCEPT !.hdr = h, !.req = q]
    IN
    /\ proc[p].pc = "idle" /\ nreq < MaxRequests
    /\ nreq' = nreq + 1
    /\ IF k = 0
       THEN /\ proc' = [proc EXCEPT ![p] = Finish([f EXCEPT !.op = "unrouted", !.http = 404], "none", "")]
            /\ UNCHANGED <<inTxn, snap>>
       ELSE IF route.handler \in CallbackHandlers
       THEN OpBegin(p, [f EXCEPT !.op = route.handler,
                                 !.payId = CallbackPayment(route.handler, q),
                                 !.status = CallbackStatus(CallbackSuccess(route.handler, q))],
                    "pay_get")
       ELSE /\ proc' = [proc EXCEPT ![p] =
                 LET g == [f EXCEPT !.op = route.handler, !.user = a.user] IN
                 IF route.auth /\ a.status = 401 THEN Finish([g EXCEPT !.http = 401], "none", a.msg)
                 ELSE IF route.handler = "gateway-config" THEN Finish([g EXCEPT !.http = 200], "none", "")
                 ELSE [g EXCEPT !.pc = "pr_handle"]]
            /\ UNCHANGED <<inTxn, snap>>
    /\ UNCHANGED <<db, now, nextId, nops, issued, okSum, logins, ui>>

\* the database statement of the create, detail and list handlers, and their response
PR_Handle(p) ==
  LET f == proc[p] IN
  /\ f.pc = "pr_handle"
  /\ CASE f.op = "create" ->
            /\ db' = [db EXCEPT !.payments = Append(@,
                  [id |-> nextId, userId |-> f.user, amount |-> f.req.amount,
                   credits |-> PaymentCredits(f.req.amount, CreditsRate),
                   status |-> "pending", method |-> "wechat", transactionId |-> "none"])]
            /\ nextId' = nextId + 1
            /\ issued' = [issued EXCEPT !.payments = @ \cup {nextId}]
            /\ proc' = [proc EXCEPT ![p] = Finish([f EXCEPT !.http = 201, !.made = nextId], "none", "")]
       [] f.op = "detail" ->
            LET id == f.req.path[1].id IN
            /\ proc' = [proc EXCEPT ![p] =
                 IF ~HasPayment(db, id)
                 THEN Finish([f EXCEPT !.http = 404], "none", ErrNoPayment)
                 ELSE IF PaymentRow(db, id).userId # f.user
                 THEN Finish([f EXCEPT !.http = 403], "none", "Forbidden")
                 ELSE Finish([f EXCEPT !.http = 200, !.body = {id}], "none", "")]
            /\ UNCHANGED <<db, nextId, issued>>
       [] f.op = "list" ->
            LET mine == {i \in DOMAIN db.payments : db.payments[i].userId = f.user}
                kept == IF f.req.status \in PaymentStatusNames
                        THEN {i \in mine : db.payments[i].status = f.req.status}
                        ELSE mine
            IN
            /\ proc' = [proc EXCEPT ![p] =
                 Finish([f EXCEPT !.http = 200, !.body = {db.payments[i].id : i \in kept}], "none", "")]
            /\ UNCHANGED <<db, nextId, issued>>
  /\ UNCHANGED <<snap, inTxn, now, nops, okSum, nreq, logins, ui>>

\* ------------------------------------------------------------ login route
\* POST /api/users/login; pw tells whether verifyPassword accepts the password.
\* logins.failed counts, per username, the 401 answers since the last 200.
Login(p) ==
  \E name \in Usernames, pw \in BOOLEAN, cap \in BOOLEAN :
    LET f == [Idle EXCEPT !.op = "login", !.username = name, !.captcha = cap]
        st == LoginStatus(GetLoginAttempts(name), cap, HasUsername(db, name), pw)
    IN
    /\ proc[p].pc = "idle" /\ logins.made < MaxLogins
    /\ IF st = 400
       THEN /\ proc' = [proc EXCEPT ![p] =
                 Finish([f EXCEPT !.http = 400, !.requireCaptcha = TRUE], "none", ErrCaptcha)]
            /\ logins' = [logins EXCEPT !.made = @ + 1]
       ELSE IF st = 401
       THEN /\ proc' = [proc EXCEPT ![p] = Finish([f EXCEPT !.http = 401], "none", ErrLogin)]
            /\ logins' = [logins EXCEPT !.made = @ + 1, !.failed[name] = @ + 1]
       ELSE /\ proc' = [proc EXCEPT ![p] =
                 Finish([f EXCEPT !.http = 200, !.user = UserIdOf(db, name)], "none", "")]
            /\ logins' = [logins EXCEPT !.made = @ + 1, !.failed[name] = 0]
    /\ UNCHANGED <<db, snap, inTxn, now, nextId, nops, issued, okSum, nreq, ui>>

\* ---------------------------------------------------------------- frontend
\* One browser tab. ui.user is the auth context's user state, ui.jwt and
\* ui.token are the localStorage items of these names.
ServerUnchanged == UNCHANGED <<db, snap, inTxn, now, nextId, nops, proc, issued, okSum, nreq>>

\* handleGenerateImage / handleGenerateVideo up to the await of getBalance
HandleGenerate(u, type) ==
  IF ~IsAuthenticated(u)
  THEN [u EXCEPT !.isLoginModalOpen = TRUE, !.hasPendingGenerationRequest = TRUE,
                 !.pendingGenerationType = type]
  ELSE [u EXCEPT !.flight = Append(@, type)]

\* the user presses the generate button
ClickGenerate ==
  \E type \in GenerationTypes :
    /\ IsAuthenticated(ui) => Len(ui.flight) + Len(ui.sent) < MaxRequests
    /\ ui' = HandleGenerate(ui, type)
    /\ ServerUnchanged /\ UNCHANGED logins

\* the rest of a generation handler: the balance arrives, the request is sent
\* with the item 'token', and a 401 answer removes the item and asks to log in
GenerateSend ==
  /\ ui.flight # <<>>
  /\ LET type == Head(ui.flight)
         rest == [ui EXCEPT !.flight = Tail(@)]
         hdr == <<"Bearer", ui.token>>
         sent == [rest EXCEPT !.sent = Append(@, [type |-> type, hdr |-> hdr, stored |-> ui.jwt])]
     IN
     ui' = IF GetBalance(ui, db) < MinCredits THEN rest
           ELSE IF AuthMiddleware(hdr, db).status = 401
           THEN [sent EXCEPT !.token = NoItem, !.isLoginModalOpen = TRUE]
           ELSE sent
  /\ ServerUnchanged /\ UNCHANGED logins

\* the login button of the header
OpenLoginModal ==
  /\ ~IsAuthenticated(ui) /\ ~ui.isLoginModalOpen
  /\ ui' = [ui EXCEPT !.isLoginModalOpen = TRUE]
  /\ ServerUnchanged /\ UNCHANGED logins

\* a click on the backdrop or on the close button of the login modal
CloseLoginModal ==
  /\ ui.isLoginModalOpen
  /\ ui' = [ui EXCEPT !.isLoginModalOpen = FALSE]
  /\ ServerUnchanged /\ UNCHANGED logins

\* the login form is submitted: login() of the auth context, then the modal's
\* handling of its result
SubmitLogin ==
  \E name \in Usernames, pw \in BOOLEAN :
    LET st == LoginStatus(GetLoginAttempts(name), FALSE, HasUsername(db, name), pw) IN
    /\ ui.isLoginModalOpen /\ logins.made < MaxLogins
    /\ IF st = 200
       THEN /\ ui' = [ui EXCEPT !.user = UserOf(LoginBody),
                                !.jwt = GoodToken(UserIdOf(db, name)),
                                !.loggedIn = TRUE, !.isLoginModalOpen = FALSE]
            /\ logins' = [logins EXCEPT !.made = @ + 1, !.failed[name] = 0]
       ELSE /\ ui' = ui
            /\ logins' = [logins EXCEPT !.made = @ + 1,
                                        !.failed[name] = IF st = 401 THEN @ + 1 ELSE @]
    /\ ServerUnchanged

\* the effect of App that runs the pending generation request
PendingEffect ==
  /\ IsAuthenticated(ui) /\ ui.hasPendingGenerationRequest
  /\ Len(ui.flight) + Len(ui.sent) < MaxRequests
  /\ ui' = [HandleGenerate([ui EXCEPT !.hasPendingGenerationRequest = FALSE],
                           IF ui.pendingGenerationType = "video" THEN "video" ELSE "image")
              EXCEPT !.pendingGenerationType = "null"]
  /\ ServerUnchanged /\ UNCHANGED logins

\* logout of the auth context, from the user profile
Logout ==
  /\ IsAuthenticated(ui)
  /\ ui' = [ui EXCEPT !.user = "null", !.jwt = NoItem, !.loggedIn = FALSE]
  /\ ServerUnchanged /\ UNCHANGED logins

\* the page is loaded again: the state of the components is lost, localStorage
\* is kept, and checkAuth asks for the user when the item 'jwt' is set
Reload ==
  /\ ui' = [FreshUi EXCEPT !.jwt = ui.jwt, !.token = ui.token, !.sent = ui.sent,
                           !.checking = (ui.jwt # NoItem)]
  /\ ServerUnchanged /\ UNCHANGED logins

\* the answer of GET /api/users/me reaches checkAuth
CheckAuthResponse ==
  /\ ui.checking
  /\ ui' = IF AuthMiddleware(<<"Bearer", ui.jwt>>, db).status = 0
           THEN [ui EXCEPT !.checking = FALSE, !.user = "object"]
           ELSE [ui EXCEPT !.checking = FALSE, !.jwt = NoItem]
  /\ ServerUnchanged /\ UNCHANGED logins

\* ------------------------------------------------------- specifications
Next ==
  \/ Tick
  \/ \E p \in Procs : CreateUser(p)
  \/ \E p \in Procs : CreateUser_Account(p)
  \/ \E p \in Procs : CallUpdateUserBalance(p)
  \/ \E p \in Procs : UB_Select(p)
  \/ \E p \in Procs : UB_Update(p)
  \/ \E p \in Procs : UB_Insert(p)
  \/ \E p \in Procs : Commit(p)
  \/ \E p \in Procs : Rollback(p)
  \/ \E p \in Procs : CreatePayment(p)
  \/ \E p \in Procs : CallHandlePaymentCallback(p)
  \/ \E p \in Procs : CallUpdatePaymentStatus(p)
  \/ \E p \in Procs : Pay_Get(p)
  \/ \E p \in Procs : Pay_Update(p)
  \/ \E p \in Procs : Pay_Deposit(p)
  \/ \E p \in Procs : CreateServiceUsage(p)
  \/ \E p \in Procs : CallConsumeService(p)
  \/ \E p \in Procs : Cons_Check(p)
  \/ \E p \in Procs : Cons_Withdraw(p)
  \/ \E p \in Procs : Cons_Usage(p)
  \/ \E p \in Procs : CallRefund(p)
  \/ \E p \in Procs : Ref_Get(p)
  \/ \E p \in Procs : Ref_Account(p)
  \/ \E p \in Procs : Ref_Usage(p)
  \/ \E p \in Procs : Ref_Txn(p)
  \/ \E p \in Procs : ServiceRequest(p)
  \/ \E p \in Procs : Svc_Check(p)
  \/ \E p \in Procs : Svc_Action(p)
  \/ \E p \in Procs : Svc_Deduct(p)
  \/ \E p \in Procs : PaymentRequest(p)
  \/ \E p \in Procs : PR_Handle(p)
  \/ \E p \in Procs : Login(p)
  \/ \E p \in Procs : CheckBalanceRequest(p)
  \/ \E p \in Procs : CB_Check(p)
  \/ \E p \in Procs : CB_Account(p)
  \/ ClickGenerate
  \/ GenerateSend
  \/ OpenLoginModal
  \/ CloseLoginModal
  \/ SubmitLogin
  \/ PendingEffect
  \/ Logout
  \/ Reload
  \/ CheckAuthResponse

Spec == Init /\ [][Next]_vars

\* the ledger alone: concurrent updateUserBalance calls and registrations
NextLedger ==
  \/ Tick
  \/ \E p \in Procs : CreateUser(p)
  \/ \E p \in Procs : CreateUser_Account(p)
  \/ \E p \in Procs : CallUpdateUserBalance(p)
  \/ \E p \in Procs : UB_Select(p)
  \/ \E p \in Procs : UB_Update(p)
  \/ \E p \in Procs : UB_Insert(p)
  \/ \E p \in Procs : Commit(p)
  \/ \E p \in Procs : Rollback(p)

SpecLedger == Init /\ [][NextLedger]_vars

\* the payment workflow over the ledger
NextPayment ==
  \/ \E p \in Procs : CreateUser(p)
  \/ \E p \in Procs : CreateUser_Account(p)
  \/ \E p \in Procs : CallUpdateUserBalance(p)
  \/ \E p \in Procs : UB_Select(p)
  \/ \E p \in Procs : UB_Update(p)
  \/ \E p \in Procs : UB_Insert(p)
  \/ \E p \in Procs : Commit(p)
  \/ \E p \in Procs : Rollback(p)
  \/ \E p \in Procs : CreatePayment(p)
  \/ \E p \in Procs : CallHandlePaymentCallback(p)
  \/ \E p \in Procs : Pay_Get(p)
  \/ \E p \in Procs : Pay_Update(p)
  \/ \E p \in Procs : Pay_Deposit(p)

SpecPayment == Init /\ [][NextPayment]_vars

\* the status of payments: creation, callbacks and updatePaymentStatus itself
NextPaymentStatus ==
  \/ \E p \in Procs : CreateUser(p)
  \/ \E p \in Procs : CreateUser_Account(p)
  \/ \E p \in Procs : Commit(p)
  \/ \E p \in Procs : Rollback(p)
  \/ \E p \in Procs : CreatePayment(p)
  \/ \E p \in Procs : CallHandlePaymentCallback(p)
  \/ \E p \in Procs : CallUpdatePaymentStatus(p)
  \/ \E p \in Procs : Pay_Get(p)
  \/ \E p \in Procs : Pay_Update(p)
  \/ \E p \in Procs : Pay_Deposit(p)

SpecPaymentStatus == Init /\ [][NextPaymentStatus]_vars

\* the service consumption workflow over the ledger
NextConsume ==
  \/ \E p \in Procs : CreateUser(p)
  \/ \E p \in Procs : CreateUser_Account(p)
  \/ \E p \in Procs : CallUpdateUserBalance(p)
  \/ \E p \in Procs : UB_Select(p)
  \/ \E p \in Procs : UB_Update(p)
  \/ \E p \in Procs : UB_Insert(p)
  \/ \E p \in Procs : Commit(p)
  \/ \E p \in Procs : Rollback(p)
  \/ \E p \in Procs : CallConsumeService(p)
  \/ \E p \in Procs : Cons_Check(p)
  \/ \E p \in Procs : Cons_Withdraw(p)
  \/ \E p \in Procs : Cons_Usage(p)

SpecConsume == Init /\ [][NextConsume]_vars

\* refunds of recorded usages, with the clock
NextRefund ==
  \/ Tick
  \/ \E p \in Procs : CreateUser(p)
  \/ \E p \in Procs : CreateUser_Account(p)
  \/ \E p \in Procs : Commit(p)
  \/ \E p \in Procs : Rollback(p)
  \/ \E p \in Procs : CreateServiceUsage(p)
  \/ \E p \in Procs : CallRefund(p)
  \/ \E p \in Procs : Ref_Get(p)
  \/ \E p \in Procs : Ref_Account(p)
  \/ \E p \in Procs : Ref_Usage(p)
  \/ \E p \in Procs : Ref_Txn(p)

SpecRefund == Init /\ [][NextRefund]_vars

\* every writer of service_usages, with the clock
NextUsage ==
  \/ Tick
  \/ \E p \in Procs : CreateUser(p)
  \/ \E p \in Procs : CreateUser_Account(p)
  \/ \E p \in Procs : Commit(p)
  \/ \E p \in Procs : Rollback(p)
  \/ \E p \in Procs : CreateServiceUsage(p)
  \/ \E p \in Procs : CallConsumeService(p)
  \/ \E p \in Procs : Cons_Check(p)
  \/ \E p \in Procs : Cons_Withdraw(p)
  \/ \E p \in Procs : Cons_Usage(p)
  \/ \E p \in Procs : CallRefund(p)
  \/ \E p \in Procs : Ref_Get(p)
  \/ \E p \in Procs : Ref_Account(p)
  \/ \E p \in Procs : Ref_Usage(p)
  \/ \E p \in Procs : Ref_Txn(p)

SpecUsage == Init /\ [][NextUsage]_vars

\* every writer of credit_transactions: updateUserBalance and refunds
NextAudit ==
  \/ \E p \in Procs : CreateUser(p)
  \/ \E p \in Procs : CreateUser_Account(p)
  \/ \E p \in Procs : CallUpdateUserBalance(p)
  \/ \E p \in Procs : UB_Select(p)
  \/ \E p \in Procs : UB_Update(p)
  \/ \E p \in Procs : UB_Insert(p)
  \/ \E p \in Procs : Commit(p)
  \/ \E p \in Procs : Rollback(p)
  \/ \E p \in Procs : CreateServiceUsage(p)
  \/ \E p \in Procs : CallRefund(p)
  \/ \E p \in Procs : Ref_Get(p)
  \/ \E p \in Procs : Ref_Account(p)
  \/ \E p \in Procs : Ref_Usage(p)
  \/ \E p \in Procs : Ref_Txn(p)

SpecAudit == Init /\ [][NextAudit]_vars

\* the tables after createUser('alice') and k withdrawals of 5 credits, all
\* made one after the other at time 0
LedgerAfter(k) ==
  [EmptyDb EXCEPT
     !.users = <<[id |-> 1, username |-> "alice"]>>,
     !.accounts = <<[userId |-> 1, balance |-> InitialBalance - 5 * k, lastUpdated |-> 0]>>,
     !.txns = [i \in 1..k |->
                 TxnRow(i + 1, 1, "withdrawal", 0 - 5, InitialBalance - 5 * (i - 1),
                        InitialBalance - 5 * i, NoId, 0)]]

\* a registered user, no request in progress
InitRegistered ==
  /\ db = LedgerAfter(0)
  /\ snap = EmptyDb
  /\ inTxn = FALSE
  /\ now = 0
  /\ nextId = 2
  /\ nops = 1
  /\ proc = [p \in Procs |-> Idle]
  /\ issued = [users |-> {1}, payments |-> {}, usages |-> {}]
  /\ okSum = [u \in 1..(2 * MaxOps) |-> 0]
  /\ nreq = 0
  /\ logins = NoLogins
  /\ ui = FreshUi

\* the payment routes, for a registered user
NextPayRoutes ==
  \/ \E p \in Procs : Commit(p)
  \/ \E p \in Procs : Rollback(p)
  \/ \E p \in Procs : Pay_Get(p)
  \/ \E p \in Procs : Pay_Update(p)
  \/ \E p \in Procs : Pay_Deposit(p)
  \/ \E p \in Procs : PaymentRequest(p)
  \/ \E p \in Procs : PR_Handle(p)

SpecPayRoutes == InitRegistered /\ [][NextPayRoutes]_vars

\* logins of a registered user and of an unknown username
NextLogin ==
  \/ \E p \in Procs : Login(p)

SpecLogin == InitRegistered /\ [][NextLogin]_vars

\* the browser of a registered user
NextFrontend ==
  \/ ClickGenerate
  \/ GenerateSend
  \/ OpenLoginModal
  \/ CloseLoginModal
  \/ SubmitLogin
  \/ PendingEffect
  \/ Logout
  \/ Reload
  \/ CheckAuthResponse

SpecFrontend == InitRegistered /\ [][NextFrontend]_vars

\* how many withdrawals the account has seen when the first request arrives
Withdrawn == {0, 2}

\* a registered user who has spent k times 5 credits, and no request in progress
InitService ==
  \E k \in Withdrawn :
    /\ db = LedgerAfter(k)
    /\ snap = EmptyDb
    /\ inTxn = FALSE
    /\ now = 0
    /\ nextId = k + 2
    /\ nops = k + 1
    /\ proc = [p \in Procs |-> Idle]
    /\ issued = [users |-> {1}, payments |-> {}, usages |-> {}]
    /\ okSum = [u \in 1..(2 * MaxOps) |-> IF u = 1 THEN 0 - 5 * k ELSE 0]
    /\ nreq = 0
  /\ logins = NoLogins
  /\ ui = FreshUi

\* the service routes over the ledger of a registered user
NextService ==
  \/ \E p \in Procs : UB_Select(p)
  \/ \E p \in Procs : UB_Update(p)
  \/ \E p \in Procs : UB_Insert(p)
  \/ \E p \in Procs : Commit(p)
  \/ \E p \in Procs : Rollback(p)
  \/ \E p \in Procs : ServiceRequest(p)
  \/ \E p \in Procs : Svc_Check(p)
  \/ \E p \in Procs : Svc_Action(p)
  \/ \E p \in Procs : Svc_Deduct(p)

SpecService == InitService /\ [][NextService]_vars

\* check-balance requests next to the service routes
NextCheckBalance ==
  \/ \E p \in Procs : UB_Select(p)
  \/ \E p \in Procs : UB_Update(p)
  \/ \E p \in Procs : UB_Insert(p)
  \/ \E p \in Procs : Commit(p)
  \/ \E p \in Procs : Rollback(p)
  \/ \E p \in Procs : ServiceRequest(p)
  \/ \E p \in Procs : Svc_Check(p)
  \/ \E p \in Procs : Svc_Action(p)
  \/ \E p \in Procs : Svc_Deduct(p)
  \/ \E p \in Procs : CheckBalanceRequest(p)
  \/ \E p \in Procs : CB_Check(p)
  \/ \E p \in Procs : CB_Account(p)

SpecCheckBalance == InitService /\ [][NextCheckBalance]_vars

TypeOK ==
  /\ inTxn \in BOOLEAN
  /\ now \in 0..MaxTime
  /\ nops \in 0..MaxOps
  /\ nreq \in 0..MaxRequests


\* ------------------------------------------------------------ properties
Quiescent == ~inTxn /\ \A p \in Procs : proc[p].pc = "idle"

Returned(p, op) == proc[p].pc = "idle" /\ proc[p].op = op

\* C1: whatever the interleaving of updateUserBalance calls, once all calls
\* have returned every account holds the initial balance plus the deltas of
\* exactly the calls that returned true, and a withdrawal that returned true
\* left a balance of at least 0.
C1_SerializedDeltas ==
  /\ Quiescent =>
       \A i \in DOMAIN db.accounts :
         db.accounts[i].balance = InitialBalance + okSum[db.accounts[i].userId]
  /\ \A p \in Procs :
       (Returned(p, "updateUserBalance") /\ proc[p].type = "withdrawal" /\ proc[p].res = "true")
         => proc[p].after >= 0

\* two overlapping withdrawals on one account: one committed, the other was
\* turned away at BEGIN
C1_Witness ==
  /\ Quiescent
  /\ \E p, q \in Procs :
       /\ Returned(p, "updateUserBalance") /\ Returned(q, "updateUserBalance")
       /\ proc[p].user = proc[q].user
       /\ proc[p].type = "withdrawal" /\ proc[q].type = "withdrawal"
       /\ proc[p].res = "true" /\ proc[q].res = "threw"
       /\ HasAccount(db, proc[p].user)
       /\ BalanceOf(db, proc[p].user) = InitialBalance + proc[p].amount


\* C2: every account balance equals the sum of the amounts of the user's
\* credit_transactions rows.
C2_BalanceIsLogSum ==
  \A i \in DOMAIN db.accounts :
    db.accounts[i].balance = SumAmounts(db.txns, db.accounts[i].userId)

Deposits(d, id) ==
  {i \in DOMAIN d.txns : d.txns[i].type = "deposit" /\ d.txns[i].relatedOrder = id}

\* a callback with success = true that found its payment
RanCompletion(p) ==
  /\ Returned(p, "updatePaymentStatus")
  /\ proc[p].status = "completed"
  /\ proc[p].began
  /\ proc[p].msg # ErrNoPayment

\* C3: when the success callback has run twice on one payment, the credits
\* were deposited exactly once and one of the two calls failed because the
\* payment was no longer pending.
C3_ReplayDepositsOnce ==
  \A p, q \in Procs :
    (p # q /\ RanCompletion(p) /\ RanCompletion(q) /\ proc[p].payId = proc[q].payId /\ Quiescent)
      => /\ Cardinality(Deposits(db, proc[p].payId)) = 1
         /\ \E r \in {p, q} : proc[r].res = "false" /\ proc[r].msg = ErrNotPending

\* C4: every payment that is committed as completed has, in the same
\* committed tables, exactly one deposit row of payment.credits for
\* payment.userId with relatedOrder = payment.id.
C4_CompletedHasDeposit ==
  \A i \in DOMAIN Committed.payments :
    LET pay == Committed.payments[i] IN
    pay.status = "completed" =>
      /\ Cardinality(Deposits(Committed, pay.id)) = 1
      /\ \A j \in Deposits(Committed, pay.id) :
           /\ Committed.txns[j].amount = pay.credits
           /\ Committed.txns[j].userId = pay.userId

\* the deposit step of a completion failed: the status update went with it
C4_Witness ==
  /\ Quiescent
  /\ \E p \in Procs :
       /\ RanCompletion(p)
       /\ proc[p].res = "false" /\ proc[p].msg = ErrNested
       /\ HasPayment(db, proc[p].payId)
       /\ PaymentRow(db, proc[p].payId).status = "pending"
       /\ Deposits(db, proc[p].payId) = {}

\* C5: createPayment stores credits = amount * 10 in status pending, and the
\* success callback on a pending payment returns true, leaves the payment
\* completed and one deposit of payment.credits for the payment.
C5_PaymentCompletes ==
  /\ \A p \in Procs :
       (Returned(p, "createPayment") /\ HasPayment(db, proc[p].made)) =>
         /\ PaymentRow(db, proc[p].made).credits = proc[p].amount * 10
         /\ PaymentRow(db, proc[p].made).status \in {"pending", "completed", "failed"}
  /\ \A p \in Procs :
       (RanCompletion(p) /\ proc[p].msg # ErrNotPending /\ HasPayment(db, proc[p].payId)) =>
         /\ proc[p].res = "true"
         /\ PaymentRow(db, proc[p].payId).status = "completed"
         /\ Cardinality(Deposits(db, proc[p].payId)) = 1

\* C6: consumeService with credits not above the balance returns success.
C6_ConsumeSucceeds ==
  \A p \in Procs :
    (Returned(p, "consumeService") /\ proc[p].began /\ proc[p].msg # ErrInsufficient)
      => proc[p].res = "true"

Stepped(p) == proc'[p] # proc[p]

\* C7: a consumeService call that finds the balance below the required
\* credits throws "Insufficient balance"; from there on it leaves the user's
\* account and the credit_transactions alone, writes exactly one usage, with
\* status failed, and returns success = false with that message.
C7_ConsumeInsufficient ==
  [][\A p \in Procs :
      LET f == proc[p] IN
      /\ (f.pc = "cons_check" /\ Stepped(p) /\ BalanceOf(db, f.user) < f.credits)
           => (proc'[p].pc = "cons_rollback" /\ proc'[p].msg = ErrInsufficient)
      /\ (f.pc = "cons_rollback" /\ f.msg = ErrInsufficient /\ Stepped(p))
           => /\ proc'[p].pc = "cons_failed" /\ proc'[p].msg = ErrInsufficient
              /\ db'.txns = db.txns /\ db'.usages = snap.usages
              /\ HasAccount(db', f.user) = HasAccount(db, f.user)
              /\ HasAccount(db, f.user) => AccountRow(db', f.user) = AccountRow(db, f.user)
      /\ (f.pc = "cons_failed" /\ f.msg = ErrInsufficient /\ Stepped(p))
           => /\ proc'[p].pc = "idle" /\ proc'[p].res = "false"
              /\ proc'[p].msg = ErrInsufficient
              /\ db'.txns = db.txns /\ db'.accounts = db.accounts
              /\ Len(db'.usages) = Len(db.usages) + 1
              /\ SubSeq(db'.usages, 1, Len(db.usages)) = db.usages
              /\ db'.usages[Len(db'.usages)].status = "failed"
              /\ db'.usages[Len(db'.usages)].userId = f.user
              /\ db'.usages[Len(db'.usages)].creditsUsed = f.credits
  ]_vars

\* a consume of more credits than the account holds has returned
C7_Witness ==
  \E p \in Procs :
    /\ Returned(p, "consumeService")
    /\ proc[p].res = "false" /\ proc[p].msg = ErrInsufficient
    /\ HasAccount(db, proc[p].user)
    /\ AccountRow(db, proc[p].user).balance < proc[p].credits
    /\ HasUsage(db, proc[p].made)
    /\ UsageRow(db, proc[p].made).status = "failed"

\* C8: a refund goes ahead only for a usage that exists, has status success
\* and is at most 24 hours old; any other refund returns false and the
\* accounts, usages and credit_transactions are what they were when it began.
C8_RefundGuard ==
  [][\A p \in Procs :
      LET f == proc[p]
          valid == /\ HasUsage(db, f.usageId)
                   /\ UsageRow(db, f.usageId).status = "success"
                   /\ now - UsageRow(db, f.usageId).createdAt <= 24
      IN
      /\ (f.pc = "ref_get" /\ Stepped(p) /\ ~valid) => proc'[p].pc = "ref_rollback"
      /\ (f.pc = "ref_rollback" /\ f.msg \in {ErrUsage, ErrExpired} /\ Stepped(p))
           => /\ proc'[p].pc = "idle" /\ proc'[p].res = "false"
              /\ db'.accounts = snap.accounts
              /\ db'.usages = snap.usages
              /\ db'.txns = snap.txns /\ db.txns = snap.txns
      /\ (f.op = "refundServiceConsumption" /\ f.pc # "idle" /\ Stepped(p)
            /\ proc'[p].pc = "idle" /\ proc'[p].res = "true")
           => f.pc = "ref_commit"
      /\ (f.pc = "ref_get" /\ Stepped(p) /\ proc'[p].pc # "ref_rollback") => valid
  ]_vars

\* a refund of a usage older than the window was turned down
C8_Witness ==
  \E p \in Procs :
    /\ Returned(p, "refundServiceConsumption")
    /\ proc[p].res = "false" /\ proc[p].msg = ErrExpired
    /\ HasUsage(db, proc[p].usageId)
    /\ UsageRow(db, proc[p].usageId).status = "success"
    /\ now - UsageRow(db, proc[p].usageId).createdAt > 24

\* C9: updateUserBalance of type withdrawal that reads a balance with
\* previous + amount < 0 throws; it returns false and the account row and the
\* credit_transactions are what they were before the call.
C9_WithdrawalAborts ==
  [][\A p \in Procs :
      LET f == proc[p] IN
      /\ (f.pc = "ub_select" /\ Stepped(p) /\ f.type = "withdrawal"
            /\ HasAccount(db, f.user) /\ AccountRow(db, f.user).balance + f.amount < 0)
           => (proc'[p].pc = "ub_rollback" /\ proc'[p].msg = ErrInsufficient)
      /\ (f.pc = "ub_rollback" /\ f.msg = ErrInsufficient /\ f.ret = "top" /\ Stepped(p))
           => /\ proc'[p].pc = "idle" /\ proc'[p].res = "false"
              /\ AccountRow(db', f.user) = AccountRow(snap, f.user)
              /\ AccountRow(db, f.user) = AccountRow(snap, f.user)
              /\ db'.txns = snap.txns /\ db.txns = snap.txns
  ]_vars

\* a withdrawal beyond the balance has returned false
C9_Witness ==
  \E p \in Procs :
    /\ Returned(p, "updateUserBalance")
    /\ proc[p].type = "withdrawal"
    /\ proc[p].res = "false" /\ proc[p].msg = ErrInsufficient
    /\ proc[p].prev + proc[p].amount < 0
    /\ BalanceOf(db, proc[p].user) = proc[p].prev

\* C10: every credit_transactions row, whether updateUserBalance or a refund
\* wrote it, has previousBalance + amount = currentBalance.
C10_RowArithmetic ==
  \A d \in {db, snap} :
    \A i \in DOMAIN d.txns :
      d.txns[i].previousBalance + d.txns[i].amount = d.txns[i].currentBalance

\* the log holds a row of updateUserBalance and a row of a refund
C10_Witness ==
  /\ ~inTxn
  /\ \E i, j \in DOMAIN db.txns :
       /\ db.txns[i].type = "withdrawal" /\ db.txns[i].relatedOrder = NoId
       /\ db.txns[j].type = "reward" /\ HasUsage(db, db.txns[j].relatedOrder)

\* the committed status of payment number i changed from a to b in this step
StatusStep(i, a, b) ==
  /\ i \in DOMAIN Committed.payments /\ i \in DOMAIN Committed'.payments
  /\ Committed.payments[i].status = a
  /\ Committed'.payments[i].status = b

PaymentStatuses == {"pending", "completed", "failed", "refunded"}

\* C11: the committed status of a payment changes only pending -> completed,
\* pending -> failed or completed -> refunded; failed and refunded never
\* change, and no payment goes from pending to refunded.
C11_PaymentTransitions ==
  [][\A i \in DOMAIN Committed.payments : \A a, b \in PaymentStatuses :
      (StatusStep(i, a, b) /\ a # b) =>
        <<a, b>> \in {<<"pending", "completed">>, <<"pending", "failed">>,
                      <<"completed", "refunded">>}
  ]_vars

\* C12: the operation that moves a payment to refunded, updatePaymentStatus
\* with status refunded, goes ahead exactly when it finds the payment
\* completed.
C12_RefundsCompleted ==
  [][\A p \in Procs :
      LET f == proc[p] IN
      (f.pc = "pay_get" /\ f.status = "refunded" /\ Stepped(p) /\ HasPayment(db, f.payId))
        => (proc'[p].pc = "pay_update" <=> PaymentRow(db, f.payId).status = "completed")
  ]_vars

\* the rows that credit a refund of usage id back
RefundRows(d, id) ==
  {i \in DOMAIN d.txns : d.txns[i].type = "reward" /\ d.txns[i].relatedOrder = id}

\* C13: a usage enters the committed table as success or failed; the only
\* later change of a committed usage is success -> refunded, committed by a
\* refund that found the usage at most 24 hours old; failed and refunded
\* usages never change; and no usage is credited back more than once.
C13_UsageTransitions ==
  [][/\ \A i \in DOMAIN Committed'.usages :
         IF i \in DOMAIN Committed.usages
         THEN LET old == Committed.usages[i]
                  new == Committed'.usages[i]
              IN /\ [new EXCEPT !.status = old.status] = old
                 /\ new.status # old.status =>
                      /\ old.status = "success" /\ new.status = "refunded"
                      /\ \E p \in Procs :
                           /\ proc[p].pc = "ref_commit" /\ proc[p].usageId = old.id
                           /\ proc[p].at - old.createdAt <= 24
         ELSE Committed'.usages[i].status \in {"success", "failed"}
     /\ Len(Committed'.usages) >= Len(Committed.usages)
     /\ \A id \in issued'.usages : Cardinality(RefundRows(Committed', id)) <= 1
  ]_vars

\* a usage was refunded once, and a second refund of it was turned down
C13_Witness ==
  /\ Quiescent
  /\ \E p \in Procs :
       /\ Returned(p, "refundServiceConsumption")
       /\ proc[p].res = "false" /\ proc[p].msg = ErrUsage
       /\ HasUsage(db, proc[p].usageId)
       /\ UsageRow(db, proc[p].usageId).status = "refunded"
       /\ Cardinality(RefundRows(db, proc[p].usageId)) = 1

AccountsOf(d, u) == {i \in DOMAIN d.accounts : d.accounts[i].userId = u}

\* C14: in the committed tables a user record exists if and only if exactly
\* one account row of that userId exists.
C14_UserIffAccount ==
  /\ \A i \in DOMAIN Committed.users :
       Cardinality(AccountsOf(Committed, Committed.users[i].id)) = 1
  /\ \A j \in DOMAIN Committed.accounts : HasUser(Committed, Committed.accounts[j].userId)

NewRows(u) ==
  {i \in DOMAIN Committed'.txns :
     i > Len(Committed.txns) /\ Committed'.txns[i].userId = u}

\* C17: when a step changes the committed balance of an account, it adds to
\* the committed log exactly one row of that user, whose amount is the
\* change; a step that adds a row of a user changes that user's committed
\* balance by the row's amount; and the rows already in the committed log
\* stay as they are.
C17_BalanceChangeHasRow ==
  [][/\ Len(Committed'.txns) >= Len(Committed.txns)
     /\ SubSeq(Committed'.txns, 1, Len(Committed.txns)) = Committed.txns
     /\ \A j \in DOMAIN Committed.accounts :
          LET u == Committed.accounts[j].userId
              change == BalanceOf(Committed', u) - BalanceOf(Committed, u)
          IN /\ change # 0 =>
                  /\ Cardinality(NewRows(u)) = 1
                  /\ \A i \in NewRows(u) : Committed'.txns[i].amount = change
             /\ \A i \in NewRows(u) : Committed'.txns[i].amount = change
  ]_vars

\* a withdrawal and a refund have each committed a balance change with its row
C17_Witness ==
  /\ Quiescent
  /\ \E i, j \in DOMAIN db.txns :
       /\ db.txns[i].type = "withdrawal" /\ db.txns[j].type = "reward"
       /\ db.txns[i].userId = db.txns[j].userId
       /\ HasUsage(db, db.txns[j].relatedOrder)
       /\ BalanceOf(db, db.txns[i].userId)
            = InitialBalance + db.txns[i].amount + db.txns[j].amount

LedgerOps ==
  {"updateUserBalance", "updatePaymentStatus", "consumeService", "refundServiceConsumption"}

\* C18: a ledger operation that has failed returned a failure result to its
\* caller (false / success = false), it did not raise.
C18_FailureReturnsFalse ==
  \A p \in Procs :
    (proc[p].pc = "idle" /\ proc[p].op \in LedgerOps /\ proc[p].res # "true")
      => proc[p].res = "false"

RouteNames == {r.name : r \in ServiceRoutes}

\* a request to a service route has been answered
Answered(p) == proc[p].pc = "idle" /\ proc[p].op \in RouteNames

\* C15: a service request that passed the balance check and performed the
\* paid action is answered 200 whenever deductCredits returns, also when it
\* returns false because the credits were gone by then; so requests of one
\* user that overlap obtain more paid actions than balance / price allows.
C15_PaidActionNotCharged ==
  \A p \in Procs :
    Answered(p) =>
      /\ (proc[p].acted /\ proc[p].res \in {"true", "false"}) => proc[p].http = 200
      /\ proc[p].http = 200 => proc[p].acted
      /\ (proc[p].http = 200 /\ proc[p].res = "true") =>
           proc[p].after = proc[p].prev - proc[p].credits

\* two overlapping requests of one user, both answered 200, on a balance
\* that paid for one of them
C15_Witness ==
  /\ Quiescent
  /\ \E p, q \in Procs :
       /\ p # q /\ Answered(p) /\ Answered(q)
       /\ proc[p].user = proc[q].user /\ proc[p].op = proc[q].op
       /\ proc[p].http = 200 /\ proc[q].http = 200
       /\ proc[p].res = "true" /\ proc[q].res = "false"
       /\ proc[p].prev \div proc[p].credits = 1
       /\ BalanceOf(db, proc[p].user) = proc[p].prev - proc[p].credits

\* the header is missing, is not 'Bearer <token>', or its token is forged,
\* expired or names a user that is not in the users table d
Unauthorized(h, d) ==
  \/ h = <<>>
  \/ Len(h) # 2
  \/ h[1] # "Bearer"
  \/ ~h[2].signed
  \/ h[2].expired
  \/ ~HasUser(d, h[2].userId)

\* request p arrives in this step
Arrives(p) ==
  /\ proc[p].pc = "idle" /\ nreq' = nreq + 1
  /\ Stepped(p) /\ proc'[p].op \in RouteNames

C20_InsufficientIs402 ==
  [][\A p \in Procs :
      LET f == proc[p] IN
      (f.pc = "svc_check" /\ Stepped(p) /\ BalanceOf(db, f.user) < f.credits) =>
        /\ proc'[p].pc = "idle" /\ proc'[p].http = 402
        /\ proc'[p].requiredCredits = f.credits
        /\ ~proc'[p].acted
        /\ db'.accounts = db.accounts /\ db'.txns = db.txns
        /\ snap' = snap
  ]_vars

\* generate-video was refused to a user holding fewer than 20 credits
C20_Witness ==
  \E p \in Procs :
    /\ Answered(p) /\ proc[p].op = "generate-video"
    /\ proc[p].http = 402 /\ proc[p].requiredCredits = VideoPrice
    /\ ~proc[p].acted
    /\ HasAccount(db, proc[p].user)
    /\ BalanceOf(db, proc[p].user) < VideoPrice

\* C21: a callback, simulate or detail request that refers to a payment that
\* does not exist is answered 404, and a callback or simulate request for a
\* payment that exists but is not pending is answered 400.
C21_NotFoundIs404 ==
  \A p \in Procs :
    (proc[p].pc = "idle" /\ proc[p].op \in CallbackHandlers \cup {"detail"}) =>
      /\ proc[p].msg = ErrNoPayment => proc[p].http = 404
      /\ proc[p].msg = ErrNotPending => proc[p].http = 400

\* C24: GET /user with a valid token is handled by the list route and
\* answered 200, and GET /gateway-config is handled by the gateway-config
\* route and answered 200 whatever the Authorization header.
C24_ListAndConfigRouted ==
  \A p \in Procs :
    LET f == proc[p] IN
    f.req.method = "GET" =>
      /\ f.req.path = <<Lit("user")>> =>
           /\ f.op = "list"
           /\ (f.pc = "idle" /\ f.hdr # <<>>) => f.http = 200
      /\ f.req.path = <<Lit("gateway-config")>> =>
           /\ f.op = "gateway-config"
           /\ f.pc = "idle" => f.http = 200

\* the header carries no token that verifyAuthToken accepts
NoValidToken(h) ==
  \/ h = <<>>
  \/ Len(h) # 2
  \/ h[1] # "Bearer"
  \/ ~h[2].signed
  \/ h[2].expired

PaymentHandlers == {PaymentRouter[i].handler : i \in DOMAIN PaymentRouter}

\* C27: no step of a request to the payment routes that carries no valid
\* bearer token changes the committed status of a payment or the committed
\* balance of an account.
C27_NoTokenNoChange ==
  [][\A p \in Procs :
      (Stepped(p) /\ proc[p].op \in PaymentHandlers /\ NoValidToken(proc[p].hdr)) =>
        /\ \A i \in DOMAIN Committed.payments :
             Committed'.payments[i].status = Committed.payments[i].status
        /\ \A j \in DOMAIN Committed.accounts :
             Committed'.accounts[j].balance = Committed.accounts[j].balance
  ]_vars

\* C22: a login request for a username that has 3 or more failed logins
\* since its last successful one, sent without a captcha, is answered 400
\* with requireCaptcha; and a login answered 200 leaves the count at 0.
C22_LoginThrottled ==
  [][\A p \in Procs :
      LET g == proc'[p] IN
      (logins'.made = logins.made + 1 /\ Stepped(p) /\ g.op = "login") =>
        /\ (logins.failed[g.username] >= 3 /\ ~g.captcha) =>
             (g.http = 400 /\ g.requireCaptcha)
        /\ g.http = 200 => logins'.failed[g.username] = 0
  ]_vars

\* the tables a registered user's requests start from are reached by the ledger
LedgerAfterReached == Quiescent /\ db = LedgerAfter(2) /\ nextId = 4 /\ now = 0

\* C23: once the user has logged in successfully while a generation request
\* is pending, the user counts as authenticated, so that the effect of App
\* runs the pending request and clears the flag and the type.
C23_PendingRunsAfterLogin ==
  (ui.loggedIn /\ ui.hasPendingGenerationRequest) => IsAuthenticated(ui)

\* C29: a generation request sent while the auth context holds a stored token
\* carries that token as its bearer token.
C29_StoredTokenSent ==
  \A i \in DOMAIN ui.sent :
    ui.sent[i].stored # NoItem => ui.sent[i].hdr = <<"Bearer", ui.sent[i].stored>>

\* C25: once all requests have finished, every user (with its account),
\* payment and usage that was returned as created is still in the database.
C25_CreatedRowsKept ==
  Quiescent =>
    /\ \A u \in issued.users : HasUser(db, u) /\ HasAccount(db, u)
    /\ \A id \in issued.payments : HasPayment(db, id)
    /\ \A id \in issued.usages : HasUsage(db, id)

\* the positions of the rows of user u in the log of d
RowsOf(d, u) == {i \in DOMAIN d.txns : d.txns[i].userId = u}

\* C26: once all requests have finished, the currentBalance of the most
\* recent credit_transactions row of a user is the balance of the account.
C26_LastRowIsBalance ==
  Quiescent =>
    \A u \in issued.users :
      (HasAccount(db, u) /\ RowsOf(db, u) # {}) =>
        LET last == CHOOSE i \in RowsOf(db, u) : \A j \in RowsOf(db, u) : j <= i IN
        db.txns[last].currentBalance = AccountRow(db, u).balance

\* C28: a request for 'ai-image-edit' passes the balance check exactly when
\* the balance is at least the price of 'ai-image-edit' in servicePricing,
\* and its deduction lowers the balance by that price, which is also the
\* price in the rules of GET /api/accounts/rules.
C28_OnePriceForImageEdit ==
  [][\A p \in Procs :
      LET f == proc[p] IN
      (f.op \in ImageEditRoutes /\ Stepped(p)) =>
        /\ (f.pc = "svc_check" /\ HasAccount(db, f.user)) =>
             (proc'[p].pc = "svc_action" <=> BalanceOf(db, f.user) >= ServicePricingImageEdit)
        /\ (f.pc = "ub_update" /\ f.ret = "route") =>
             /\ BalanceOf(db, f.user) - BalanceOf(db', f.user) = ServicePricingImageEdit
             /\ ServicePricingImageEdit = RulesImageEdit
  ]_vars

\* C30: in every 200 response of check-balance, hasEnoughBalance is true
\* exactly when the currentBalance of that response is at least requiredAmount.
C30_CheckBalanceConsistent ==
  \A p \in Procs :
    LET f == proc[p] IN
    (f.pc = "idle" /\ f.op = "check-balance" /\ f.http = 200) =>
      (f.hasEnoughBalance <=> f.currentBalance >= f.requiredAmount)

====
